---- MODULE Spec2Model ----
(***************************************************************************)
(* json_env (src/src/main.rs): reads JSON config files, merges their       *)
(* members into an environment map and runs a program with it; keeps a     *)
(* whitelist of trusted .env.json paths for the shell hook.                *)
(*                                                                         *)
(* Strings are sequences of one-token strings.  A JSON value is a record   *)
(* tagged by `kind'; an object keeps its members as a sequence of          *)
(* <<key, value>> pairs in the iteration order of serde_json's Map.        *)
(***************************************************************************)
EXTENDS Integers, Sequences, FiniteSets, TLC

VARIABLES
    store,      \* content of ~/.config/json_env/whitelist.json, or Absent
    rc,         \* the shell configuration file: Absent, or the number of appended include commands
    tlast,      \* what the last trust-store invocation did: [op, path, msg, code]
    touched,    \* paths on which the whitelist operation has been invoked so far
    pc,         \* position of a resolution run inside main
    args,       \* the parsed command line of the resolution run
    sources,    \* the (file, path, nodes) triples the loop of main has processed
    env_vars,   \* main's HashMap<String, String>
    run,        \* outcome of the run: [err, exit, exported, spawn, child]
    pin,        \* input of a pure-function application
    pout        \* its output

vars == <<store, rc, tlast, touched, pc, args, sources, env_vars, run, pin, pout>>

trustVars == <<store, rc, tlast, touched>>
runVars   == <<pc, args, sources, env_vars, run>>
pureVars  == <<pin, pout>>

-----------------------------------------------------------------------------
(* Bounds *)

MaxSources == 2    \* config files on one command line
MaxDepth   == 2    \* depth of the working directory below the root
MaxAppends == 1    \* include commands appended to the shell configuration file
MaxLen     == 4    \* length of a string handed to the expansion
MaxNum     == 11   \* largest JSON number

-----------------------------------------------------------------------------
(* JSON values (serde_json::Value) *)

JNull      == [kind |-> "null"]
JBool(b)   == [kind |-> "bool", b |-> b]
JNum(n)    == [kind |-> "number", n |-> n]
JStr(s)    == [kind |-> "string", s |-> s]
JArr(xs)   == [kind |-> "array", items |-> xs]
JObj(ms)   == [kind |-> "object", members |-> ms]

is_object(v) == v.kind = "object"

RECURSIVE Flatten(_)
Flatten(ss) == IF ss = <<>> THEN <<>> ELSE Head(ss) \o Flatten(Tail(ss))

RECURSIVE Join(_, _)
Join(ss, sep) ==
    IF ss = <<>> THEN <<>>
    ELSE IF Len(ss) = 1 THEN Head(ss)
    ELSE Head(ss) \o sep \o Join(Tail(ss), sep)

DigitChars == <<"0", "1", "2", "3", "4", "5", "6", "7", "8", "9">>

RECURSIVE Digits(_)
Digits(n) == IF n < 10 THEN <<DigitChars[n + 1]>>
             ELSE Digits(n \div 10) \o <<DigitChars[(n % 10) + 1]>>

\* serde_json's string escaping, for the characters the model's strings hold
EscapeChar(c) == IF c = "\"" THEN <<"\\", "\"">>
                 ELSE IF c = "\\" THEN <<"\\", "\\">>
                 ELSE <<c>>

Quote(s) == <<"\"">> \o Flatten([i \in 1..Len(s) |-> EscapeChar(s[i])]) \o <<"\"">>

\* Value::to_string(): the compact JSON text of a value
RECURSIVE to_string(_)
to_string(v) ==
    CASE v.kind = "null"   -> <<"n", "u", "l", "l">>
      [] v.kind = "bool"   -> IF v.b THEN <<"t", "r", "u", "e">>
                                     ELSE <<"f", "a", "l", "s", "e">>
      [] v.kind = "number" -> Digits(v.n)
      [] v.kind = "string" -> Quote(v.s)
      [] v.kind = "array"  ->
           <<"[">> \o Join([i \in 1..Len(v.items) |-> to_string(v.items[i])], <<",">>) \o <<"]">>
      [] v.kind = "object" ->
           <<"{">> \o Join([i \in 1..Len(v.members) |->
                              Quote(<<v.members[i][1]>>) \o <<":">> \o to_string(v.members[i][2])],
                           <<",">>) \o <<"}">>

-----------------------------------------------------------------------------
(* add_values_to_map: coercion, expansion, insertion *)

\* variant of coerce without the is_null test
CoerceDropsNull(val) ==
    LET s0 == <<>>
        s1 == IF val.kind = "array"   THEN to_string(val) ELSE s0
        s2 == IF val.kind = "bool"    THEN to_string(val) ELSE s1
        s3 == IF val.kind = "object"  THEN to_string(val) ELSE s2
        s5 == IF val.kind = "number"  THEN to_string(val) ELSE s3
        s6 == IF val.kind = "string"  THEN val.s ELSE s5
    IN  s6

\* the chain of `if val.is_X()' statements over val_str, which starts as ""
coerce(val) ==
    LET s0 == <<>>
        s1 == IF val.kind = "array"   THEN to_string(val) ELSE s0
        s2 == IF val.kind = "bool"    THEN to_string(val) ELSE s1
        s3 == IF val.kind = "object"  THEN to_string(val) ELSE s2
        s4 == IF val.kind = "null"    THEN to_string(val) ELSE s3
        s5 == IF val.kind = "number"  THEN to_string(val) ELSE s4
        s6 == IF val.kind = "string"  THEN val.s ELSE s5
    IN  s6

IsPrefix(p, s) == Len(p) <= Len(s) /\ SubSeq(s, 1, Len(p)) = p

\* str::contains
RECURSIVE contains(_, _)
contains(s, pat) ==
    IF Len(s) < Len(pat) THEN FALSE
    ELSE IsPrefix(pat, s) \/ contains(Tail(s), pat)

\* str::replace: every non-overlapping match, left to right
RECURSIVE replace(_, _, _)
replace(s, pat, to) ==
    IF Len(s) < Len(pat) \/ pat = <<>> THEN s
    ELSE IF IsPrefix(pat, s)
         THEN to \o replace(SubSeq(s, Len(pat) + 1, Len(s)), pat, to)
         ELSE <<Head(s)>> \o replace(Tail(s), pat, to)

\* the loop over env::vars(); environ is a sequence of <<name, value>> pairs
RECURSIVE expand_loop(_, _, _)
expand_loop(val_str, expanded_val, environ) ==
    IF environ = <<>> THEN expanded_val
    ELSE LET env_key_dollar == <<"$", Head(environ)[1]>>
             next == IF contains(val_str, env_key_dollar)
                     THEN replace(val_str, env_key_dollar, Head(environ)[2])
                     ELSE expanded_val
         IN  expand_loop(val_str, next, Tail(environ))

expand(val_str, environ) == expand_loop(val_str, val_str, environ)

\* variant of insert that keeps the value of a key already present
InsertKeepsFirst(m, k, v) ==
    [x \in DOMAIN m \cup {k} |-> IF x \in DOMAIN m THEN m[x] ELSE v]

\* HashMap::insert
insert(m, k, v) == [x \in DOMAIN m \cup {k} |-> IF x = k THEN v ELSE m[x]]

EmptyMap == [x \in {} |-> <<>>]

\* the inner loop: the members of one object
RECURSIVE add_members(_, _, _, _)
add_members(members, should_expand, environ, str_map) ==
    IF members = <<>> THEN str_map
    ELSE LET key     == Head(members)[1]
             val_str == coerce(Head(members)[2])
             new     == IF should_expand THEN expand(val_str, environ) ELSE val_str
         IN  add_members(Tail(members), should_expand, environ, insert(str_map, key, new))

\* the outer loop: the extracted values, of which only objects contribute
RECURSIVE add_values_to_map(_, _, _, _)
add_values_to_map(values, should_expand, environ, str_map) ==
    IF values = <<>> THEN str_map
    ELSE add_values_to_map(Tail(values), should_expand, environ,
            IF is_object(Head(values))
            THEN add_members(Head(values).members, should_expand, environ, str_map)
            ELSE str_map)

-----------------------------------------------------------------------------
(* Option and the file locator *)

None    == [some |-> FALSE]
Some(x) == [some |-> TRUE, val |-> x]

DirChain == <<"p", "q", "r", "s", "t">>
Dir(d)   == SubSeq(DirChain, 1, d)
Dirs     == {Dir(d) : d \in 0..MaxDepth}

\* Path::to_str of an absolute path given by its components
to_str(path) == <<"/">> \o Join([i \in 1..Len(path) |-> <<path[i]>>], <<"/">>)

\* find_env_file: has_env is the set of directories that hold a .env.json
RECURSIVE find_env_file(_, _)
find_env_file(current_dir, has_env) ==
    LET env_file == current_dir \o <<".env.json">>
    IN  IF current_dir \in has_env THEN Some(env_file)
        ELSE IF current_dir = <<>> THEN None
        ELSE find_env_file(SubSeq(current_dir, 1, Len(current_dir) - 1), has_env)

-----------------------------------------------------------------------------
(* Config files and the path extractor *)

DocFlat ==
    JObj(<< <<"K1", JStr(<<"$", "A", "-", "$", "B">>)>>,
            <<"K2", JBool(TRUE)>>,
            <<"K3", JNull>> >>)

DocNested ==
    JObj(<< <<"nested", JObj(<< <<"K1", JStr(<<"x">>)>>,
                                <<"K4", JArr(<<JNum(1), JStr(<<"a">>)>>)>> >>)>>,
            <<"other",  JObj(<< <<"K1", JStr(<<"$", "A">>)>>,
                                <<"K5", JNum(10)>> >>)>>,
            <<"K2", JNum(5)>> >>)

DocEmpty  == JObj(<<>>)
DocScalar == JNum(7)

\* what File::open, read_to_string and the JSON parser make of each file
Files ==
    [f \in {"flat.json", "nested.json", "empty.json", "scalar.json",
            "bad.json", "dir", "missing"} |->
        CASE f = "flat.json"   -> [open |-> TRUE, read |-> TRUE, json |-> Some(DocFlat)]
          [] f = "nested.json" -> [open |-> TRUE, read |-> TRUE, json |-> Some(DocNested)]
          [] f = "empty.json"  -> [open |-> TRUE, read |-> TRUE, json |-> Some(DocEmpty)]
          [] f = "scalar.json" -> [open |-> TRUE, read |-> TRUE, json |-> Some(DocScalar)]
          [] f = "bad.json"    -> [open |-> TRUE, read |-> TRUE, json |-> None]
          [] f = "dir"         -> [open |-> TRUE, read |-> FALSE, json |-> None]
          [] f = "missing"     -> [open |-> FALSE, read |-> FALSE, json |-> None]]

FileNames == DOMAIN Files

\* the selectors of a JSONPath expression; "$[" does not parse
PathNames == {"$", "$.nested", "$.missing", "$.*", "$["}
Selectors(path) ==
    CASE path = "$"         -> Some(<<>>)
      [] path = "$.nested"  -> Some(<<"nested">>)
      [] path = "$.missing" -> Some(<<"missing">>)
      [] path = "$.*"       -> Some(<<"*">>)
      [] path = "$["        -> None

\* one selector applied to one node
Step(node, sel) ==
    IF sel = "*"
    THEN CASE node.kind = "object" -> [i \in 1..Len(node.members) |-> node.members[i][2]]
           [] node.kind = "array"  -> node.items
           [] OTHER                -> <<>>
    ELSE IF node.kind = "object"
         THEN LET hit == {i \in 1..Len(node.members) : node.members[i][1] = sel}
              IN  IF hit = {} THEN <<>> ELSE <<node.members[CHOOSE i \in hit : TRUE][2]>>
         ELSE <<>>

RECURSIVE find_slice(_, _)
find_slice(nodes, sels) ==
    IF sels = <<>> THEN nodes
    ELSE find_slice(Flatten([i \in 1..Len(nodes) |-> Step(nodes[i], Head(sels))]), Tail(sels))

\* JsonPathFinder::find(): an array of the matches; for no match the library
\* returns, depending on its version, Null or an empty array (empty_as)
find(doc, sels, empty_as) ==
    LET slice == find_slice(<<doc>>, sels)
    IN  IF slice = <<>>
        THEN IF empty_as = "null" THEN JNull ELSE JArr(<<>>)
        ELSE JArr(slice)

Ok(x)  == [ok |-> TRUE, val |-> x]
Err(e) == [ok |-> FALSE, err |-> e]

parse_and_extract(file, path, empty_as) ==
    IF ~file.json.some \/ ~Selectors(path).some THEN Err("parse")
    ELSE LET found == find(file.json.val, Selectors(path).val, empty_as)
         IN  IF found.kind = "array" THEN Ok(found.items) ELSE Err("path")

-----------------------------------------------------------------------------
(* A resolution run of main: json_env [-s] [-e] [--export] -c ... -p ... exe *)

\* the process environment, in the order env::vars() yields it
EnvA == <<"A", <<"1">>>>
EnvB == <<"B", <<"2">>>>
Environs == {<<EnvA, EnvB>>, <<EnvB, EnvA>>, <<EnvA>>}

ChildCodes == {0, 1, 3}

NoSource == [file |-> "none", path |-> "none"]

\* err: the fatal error hit; exit: the exit status; diag: a diagnostic was printed;
\* exported: the export lines were printed; spawn, child: what execute() saw;
\* at: the source the loop handled last
Running == [err |-> "none", exit |-> 0, diag |-> FALSE, exported |-> FALSE,
            spawn |-> "none", child |-> 0, at |-> NoSource]

InitRun ==
    /\ pc = "start"
    /\ args \in [silent : BOOLEAN, expand : BOOLEAN, export : BOOLEAN, has_exe : BOOLEAN,
                 nfiles : 0..MaxSources, npaths : 1..MaxSources, environ : Environs]
    /\ sources = <<>>
    /\ env_vars = EmptyMap
    /\ run = Running

\* process::exit(1) under --silent, cmd.error(..).exit() otherwise
ExitOrUsage(kind) ==
    /\ pc' = "done"
    /\ run' = [run EXCEPT !.err = kind,
                          !.exit = IF args.silent THEN 1 ELSE 2,
                          !.diag = ~args.silent]

\* variant of ReturnOrUsage in which a silent run skips the failed source and goes on
ReturnContinues(kind, at) ==
    /\ pc' = IF args.silent THEN "finish" ELSE "done"
    /\ run' = [run EXCEPT !.err = kind, !.at = at,
                          !.exit = IF args.silent THEN 0 ELSE 2,
                          !.diag = ~args.silent]

\* `return' under --silent, cmd.error(..).exit() otherwise
ReturnOrUsage(kind, at) ==
    /\ pc' = "done"
    /\ run' = [run EXCEPT !.err = kind, !.at = at,
                          !.exit = IF args.silent THEN 0 ELSE 2,
                          !.diag = ~args.silent]

CheckExecutable ==
    /\ pc = "start"
    /\ IF ~args.has_exe /\ ~args.export
       THEN ExitOrUsage("usage")
       ELSE pc' = "locate" /\ run' = run
    /\ UNCHANGED <<args, sources, env_vars, trustVars, pureVars>>

LocateConfig ==
    /\ pc = "locate"
    /\ IF args.nfiles = 0
       THEN \E current_dir \in Dirs, has_env \in SUBSET Dirs :
              IF find_env_file(current_dir, has_env).some
              THEN /\ args' = [args EXCEPT !.nfiles = 1]
                   /\ pc' = "loop"
                   /\ run' = run
              ELSE /\ ExitOrUsage("noconfig")
                   /\ args' = args
       ELSE pc' = "loop" /\ UNCHANGED <<args, run>>
    /\ UNCHANGED <<sources, env_vars, trustVars, pureVars>>

\* one iteration of the loop over args.config_files
ProcessSource ==
    /\ pc = "loop"
    /\ Len(sources) < args.nfiles
    /\ \E file_name \in FileNames,
          json_path \in (IF Len(sources) < args.npaths THEN PathNames ELSE {"$"}),
          empty_as \in {"null", "array"} :
         LET file == Files[file_name]
             res  == parse_and_extract(file, json_path, empty_as)
             at   == [file |-> file_name, path |-> json_path]
         IN  IF ~file.open THEN ReturnOrUsage("open", at) /\ UNCHANGED <<sources, env_vars>>
             ELSE IF ~file.read THEN ReturnOrUsage("read", at) /\ UNCHANGED <<sources, env_vars>>
             ELSE IF ~res.ok THEN ReturnOrUsage(res.err, at) /\ UNCHANGED <<sources, env_vars>>
             ELSE IF res.val = <<>> THEN ReturnOrUsage("path", at) /\ UNCHANGED <<sources, env_vars>>
             ELSE /\ env_vars' = add_values_to_map(res.val, args.expand, args.environ, env_vars)
                  /\ sources' = Append(sources,
                                       [file |-> file_name, path |-> json_path, nodes |-> res.val])
                  /\ pc' = IF Len(sources) + 1 = args.nfiles THEN "finish" ELSE "loop"
                  /\ run' = [run EXCEPT !.at = at]
    /\ UNCHANGED <<args, trustVars, pureVars>>

Export ==
    /\ pc = "finish"
    /\ args.export
    /\ pc' = "done"
    /\ run' = [run EXCEPT !.exported = TRUE, !.exit = 0]
    /\ UNCHANGED <<args, sources, env_vars, trustVars, pureVars>>

\* execute(): Command::spawn and Child::wait, both results only printed
execute(outcome, code) ==
    [run EXCEPT !.spawn = outcome,
                !.child = IF outcome = "ran" THEN code ELSE 0,
                !.exit = 0]

Execute ==
    /\ pc = "finish"
    /\ ~args.export
    /\ \E outcome \in {"spawn_err", "wait_err", "ran"}, code \in ChildCodes :
         run' = execute(outcome, code)
    /\ pc' = "done"
    /\ UNCHANGED <<args, sources, env_vars, trustVars, pureVars>>

NextRun ==
    \/ CheckExecutable
    \/ LocateConfig
    \/ ProcessSource
    \/ Export
    \/ Execute

-----------------------------------------------------------------------------
(* The trust store: ~/.config/json_env/whitelist.json *)

\* serde_json::to_string(&Vec<String>)
vec_to_string(list) == to_string(JArr([i \in 1..Len(list) |-> JStr(list[i])]))

\* the characters of a JSON string up to its closing quote: [ok, val, rest]
RECURSIVE scan_string(_, _)
scan_string(ts, acc) ==
    IF ts = <<>> THEN [ok |-> FALSE, val |-> <<>>, rest |-> <<>>]
    ELSE IF Head(ts) = "\"" THEN [ok |-> TRUE, val |-> acc, rest |-> Tail(ts)]
    ELSE IF Head(ts) = "\\"
         THEN IF Len(ts) < 2 THEN [ok |-> FALSE, val |-> <<>>, rest |-> <<>>]
              ELSE scan_string(SubSeq(ts, 3, Len(ts)), Append(acc, ts[2]))
    ELSE scan_string(Tail(ts), Append(acc, Head(ts)))

\* the elements of an array of strings after its opening bracket
RECURSIVE scan_elements(_, _)
scan_elements(ts, acc) ==
    IF ts = <<>> \/ Head(ts) # "\"" THEN Err("expected string")
    ELSE LET str == scan_string(Tail(ts), <<>>)
         IN  IF ~str.ok \/ str.rest = <<>> THEN Err("eof")
             ELSE IF Head(str.rest) = "," THEN scan_elements(Tail(str.rest), Append(acc, str.val))
             ELSE IF Head(str.rest) = "]" /\ Tail(str.rest) = <<>> THEN Ok(Append(acc, str.val))
             ELSE Err("trailing characters")

\* serde_json::from_str::<Vec<String>>
from_str(contents) ==
    IF contents = <<>> \/ Head(contents) # "[" THEN Err("invalid type")
    ELSE IF Tail(contents) = <<"]">> THEN Ok(<<>>)
    ELSE scan_elements(Tail(contents), <<>>)

\* b"{\"items\":[]}", which install_shell_completion writes
ItemsFile == <<"{", "\"", "items", "\"", ":", "[", "]", "}">>

\* variant of write_all that writes through a read-only handle as well
WriteThroughReadHandle(handle, bytes) ==
    [ok |-> TRUE,
     content |-> SubSeq(handle.content, 1, handle.pos) \o bytes
                 \o SubSeq(handle.content, handle.pos + Len(bytes) + 1, Len(handle.content))]

\* File::write_all on a handle [mode, content, pos]: a handle from File::open
\* is read-only and every write to it fails; a handle from File::create writes
\* at its position
write_all(handle, bytes) ==
    IF handle.mode = "read" THEN [ok |-> FALSE, content |-> handle.content]
    ELSE [ok |-> TRUE,
          content |-> SubSeq(handle.content, 1, handle.pos) \o bytes
                      \o SubSeq(handle.content, handle.pos + Len(bytes) + 1, Len(handle.content))]

\* variant of is_whitelisted without the comparison of the paths
IsWhitelistedOnAnyList(st, config_path_str) ==
    IF ~st.some THEN FALSE
    ELSE from_str(st.val).ok

\* is_whitelisted(): a missing file and a file that is no list of strings give false
is_whitelisted(st, config_path_str) ==
    IF ~st.some THEN FALSE
    ELSE LET whitelist == from_str(st.val)
         IN  IF ~whitelist.ok THEN FALSE
             ELSE \E i \in 1..Len(whitelist.val) : whitelist.val[i] = config_path_str

\* whitelist(): the store afterwards and the line printed
whitelist(st, config_path_str) ==
    IF ~st.some
    THEN LET file == [mode |-> "write", content |-> <<>>, pos |-> 0]
             w    == write_all(file, vec_to_string(<<config_path_str>>))
         IN  [store |-> Some(w.content), msg |-> IF w.ok THEN "whitelisted" ELSE "created"]
    ELSE LET file == [mode |-> "read", content |-> st.val, pos |-> Len(st.val)]
             list == from_str(st.val)
         IN  IF ~list.ok THEN [store |-> st, msg |-> "none"]
             ELSE IF \E i \in 1..Len(list.val) : list.val[i] = config_path_str
                  THEN [store |-> st, msg |-> "already"]
             ELSE LET w == write_all(file, vec_to_string(Append(list.val, config_path_str)))
                  IN  [store |-> Some(w.content), msg |-> IF w.ok THEN "whitelisted" ELSE "none"]

\* variant of trust that writes a fresh list whatever the store holds
TrustOverwrites(st, config_path_str) ==
    [store |-> Some(vec_to_string(<<config_path_str>>)), msg |-> "whitelisted", code |-> 0]

\* main, --whitelist, once the .env.json is found
trust(st, config_path_str) ==
    IF is_whitelisted(st, config_path_str)
    THEN [store |-> st, msg |-> "already", code |-> 0]
    ELSE LET r == whitelist(st, config_path_str)
         IN  [store |-> r.store, msg |-> r.msg, code |-> 0]

ShellNames == {"bash", "zsh", "fish"}

\* get_shell: $SHELL may also be unset or name another shell
get_shell(shell) == IF shell \in ShellNames THEN Ok(shell) ELSE Err("Unknown shell")

\* the whitelist file after install_shell_completion
install_whitelist_file(st) == IF ~st.some THEN Some(ItemsFile) ELSE st

InitTrust ==
    /\ store = None
    /\ rc = [sh \in ShellNames |-> None]
    /\ tlast = [op |-> "none", path |-> <<>>, msg |-> "none", code |-> 0, before |-> None]
    /\ touched = {}

MainIsWhitelisted ==
    /\ \E current_dir \in Dirs, has_env \in SUBSET Dirs :
         LET found == find_env_file(current_dir, has_env)
         IN  IF found.some
             THEN LET p == to_str(found.val)
                      w == is_whitelisted(store, p)
                  IN  tlast' = [op |-> "is_whitelisted", path |-> p,
                                msg |-> IF w THEN "is" ELSE "is_not",
                                code |-> IF w THEN 0 ELSE 1, before |-> store]
             ELSE tlast' = [op |-> "is_whitelisted", path |-> <<>>, msg |-> "no_env",
                            code |-> 1, before |-> store]
    /\ UNCHANGED <<store, rc, touched, runVars, pureVars>>

MainWhitelist ==
    /\ UNCHANGED <<runVars, pureVars>>
    /\ \E current_dir \in Dirs, has_env \in SUBSET Dirs :
      LET found == find_env_file(current_dir, has_env)
      IN  IF found.some
          THEN LET p == to_str(found.val)
                   r == trust(store, p)
               IN  /\ store' = r.store
                   /\ tlast' = [op |-> "whitelist", path |-> p, msg |-> r.msg,
                                code |-> r.code, before |-> store]
                   /\ touched' = touched \cup {p}
                   /\ rc' = rc
          ELSE /\ tlast' = [op |-> "whitelist", path |-> <<>>, msg |-> "no_env",
                            code |-> 1, before |-> store]
               /\ UNCHANGED <<store, rc, touched>>

\* main, --install: install_shell_completion(silent)
Install ==
    /\ UNCHANGED <<runVars, pureVars>>
    /\ \E silent \in BOOLEAN, shell \in ShellNames \cup {"other"},
       confirm_shell \in BOOLEAN, confirm_append \in BOOLEAN :
      LET sh == get_shell(shell)
          stop(msg, code) ==
              /\ tlast' = [op |-> "install", path |-> <<>>, msg |-> msg, code |-> code,
                           before |-> store]
              /\ UNCHANGED <<store, rc>>
      IN  /\ IF ~sh.ok THEN stop("no_shell", 1)
             ELSE IF ~silent /\ ~confirm_shell THEN stop("declined", 0)
             ELSE IF ~silent /\ ~confirm_append THEN stop("declined", 0)
             ELSE /\ (IF rc[sh.val].some THEN rc[sh.val].val ELSE 0) < MaxAppends
                  /\ rc' = [rc EXCEPT ![sh.val] =
                               Some((IF rc[sh.val].some THEN rc[sh.val].val ELSE 0) + 1)]
                  /\ store' = install_whitelist_file(store)
                  /\ tlast' = [op |-> "install", path |-> <<>>, msg |-> "installed",
                               code |-> 0, before |-> store]
          /\ touched' = touched

NextTrust ==
    \/ MainIsWhitelisted
    \/ MainWhitelist
    \/ Install

-----------------------------------------------------------------------------
(* Coercion and expansion applied to bounded inputs *)

StrChars == {"a", "\"", "$"}
SmallStrings == {<<>>} \cup {<<c>> : c \in StrChars} \cup {<<c, d>> : c, d \in StrChars}

Scalars == {JNull, JBool(TRUE), JBool(FALSE)}
             \cup {JNum(n) : n \in 0..MaxNum}
             \cup {JStr(s) : s \in SmallStrings}

Elements == {JNull, JBool(FALSE), JNum(MaxNum), JStr(<<"a">>), JStr(<<"\"">>)}

Arrays  == {JArr(<<>>)} \cup {JArr(<<x>>) : x \in Elements}
             \cup {JArr(<<x, y>>) : x, y \in Elements}
Objects == {JObj(<<>>)} \cup {JObj(<< <<"k", x>> >>) : x \in Elements \cup {JArr(<<>>)}}
             \cup {JObj(<< <<"k", x>>, <<"l", JObj(<< <<"m", x>> >>)>> >>) : x \in Elements}

Values == Scalars \cup Arrays \cup Objects

ExpChars == {"$", "A", "B", "x"}
RECURSIVE StringsUpTo(_)
StringsUpTo(n) ==
    IF n = 0 THEN {<<>>}
    ELSE LET shorter == StringsUpTo(n - 1)
         IN  shorter \cup {Append(s, c) : s \in {t \in shorter : Len(t) = n - 1}, c \in ExpChars}

InitPure ==
    /\ pin \in [op : {"coerce"}, val : Values]
               \cup [op : {"expand"}, val : StringsUpTo(MaxLen), environ : Environs]
    /\ pout = None

ApplyCoerce ==
    /\ pin.op = "coerce"
    /\ ~pout.some
    /\ pout' = Some(coerce(pin.val))
    /\ UNCHANGED <<pin, trustVars, runVars>>

ApplyExpand ==
    /\ pin.op = "expand"
    /\ ~pout.some
    /\ pout' = Some(expand(pin.val, pin.environ))
    /\ UNCHANGED <<pin, trustVars, runVars>>

NextPure ==
    \/ ApplyCoerce
    \/ ApplyExpand

-----------------------------------------------------------------------------
(* Specifications *)

IdleRun   == pc = "idle" /\ args = <<>> /\ sources = <<>> /\ env_vars = EmptyMap /\ run = Running
IdlePure  == pin = [op |-> "none"] /\ pout = None

\* invocations of json_env that read or change the trust store
Init == InitTrust /\ IdleRun /\ IdlePure
Next == NextTrust
Spec == Init /\ [][Next]_vars

\* one resolution run
InitR == InitRun /\ InitTrust /\ IdlePure
SpecRun == InitR /\ [][NextRun]_vars

\* coerce and expand on bounded inputs
InitP == InitPure /\ InitTrust /\ IdleRun
SpecPure == InitP /\ [][NextPure]_vars

-----------------------------------------------------------------------------
(* Properties of the trust store (Spec) *)

EnvPaths == {to_str(Append(d, ".env.json")) : d \in Dirs}

\* the TrustRecord a store file holds
ListOf(st) == IF st.some /\ from_str(st.val).ok THEN from_str(st.val).val ELSE <<>>

RECURSIVE Occurrences(_, _)
Occurrences(s, pat) ==
    IF Len(s) < Len(pat) THEN 0
    ELSE IF IsPrefix(pat, s) THEN 1 + Occurrences(SubSeq(s, Len(pat) + 1, Len(s)), pat)
    ELSE Occurrences(Tail(s), pat)

\* the lists of at most two paths, as serde_json writes them
ShortLists == {<<>>} \cup {<<p>> : p \in EnvPaths} \cup {<<p, q>> : p, q \in EnvPaths}

Trusting == tlast.op = "whitelist" /\ tlast.path # <<>>
Asking   == tlast.op = "is_whitelisted" /\ tlast.path # <<>>

\* C2: a whitelist operation on a path that is not in the TrustRecord leaves the
\* path trusted and the persisted list equal to the previous list with the path
\* appended, whatever the store file was before (absent, holding other paths,
\* or written by the install operation).
C2_TrustMovesToTrusted ==
    Trusting /\ ~is_whitelisted(tlast.before, tlast.path)
    => /\ is_whitelisted(store, tlast.path)
       /\ ListOf(store) = Append(ListOf(tlast.before), tlast.path)

\* C3: every trusted path occurs exactly once in the store file, and a whitelist
\* operation on a path that is already trusted reports "already whitelisted" and
\* leaves the store file as it was.
C3_TrustIdempotent ==
    /\ \A p \in EnvPaths :
         is_whitelisted(store, p) => Occurrences(store.val, Quote(p)) = 1
    /\ \A i, j \in 1..Len(ListOf(store)) :
         ListOf(store)[i] = ListOf(store)[j] => i = j
    /\ Trusting /\ is_whitelisted(tlast.before, tlast.path)
       => tlast.msg = "already" /\ store = tlast.before

C3_Witness ==
    /\ Trusting
    /\ is_whitelisted(tlast.before, tlast.path)
    /\ tlast.msg = "already"

C5_TrustNeverRevoked ==
    tlast.op # "none"
    => /\ \A p \in EnvPaths : is_whitelisted(tlast.before, p) => is_whitelisted(store, p)
       /\ IsPrefix(ListOf(tlast.before), ListOf(store))

\* a whitelist operation on another path, and an install, after a path was trusted
C5_Witness ==
    /\ tlast.path # <<>> \/ tlast.msg = "installed"
    /\ tlast.op \in {"whitelist", "install"}
    /\ \E p \in EnvPaths :
         /\ p # tlast.path
         /\ is_whitelisted(tlast.before, p)
         /\ is_whitelisted(store, p)

-----------------------------------------------------------------------------
(* Properties of a resolution run (SpecRun) *)

FatalKinds == {"open", "read", "parse", "path"}

\* C1: a silent run that hits a fatal resolution error (a config file that
\* cannot be opened, cannot be read or does not parse, or a path expression
\* that yields nothing) ends with a non-zero exit status and prints no diagnostic.
C1_SilentKeepsNonZeroExit ==
    pc = "done" /\ args.silent /\ run.err \in FatalKinds
    => run.exit # 0 /\ ~run.diag

\* the <<key, value>> members the object nodes of the sources define, in the
\* order of the sources, of their nodes and of the nodes' members
RECURSIVE Contribs(_)
Contribs(srcs) ==
    IF srcs = <<>> THEN <<>>
    ELSE LET nodes == Head(srcs).nodes
         IN  Flatten([i \in 1..Len(nodes) |->
                        IF nodes[i].kind = "object" THEN nodes[i].members ELSE <<>>])
             \o Contribs(Tail(srcs))

Final(raw) == IF args.expand THEN expand(coerce(raw), args.environ) ELSE coerce(raw)

\* C7: at every point of a run the environment map binds exactly the keys the
\* processed sources define, each to the coerced (and, with --expand, expanded)
\* value of its last definition in source order and node order; so no key of an
\* earlier source is ever lost.
C7_LastSourceWins ==
    pc # "idle"
    => LET cs   == Contribs(sources)
           keys == {cs[i][1] : i \in 1..Len(cs)}
       IN  /\ DOMAIN env_vars = keys
           /\ \A k \in keys :
                LET defs == {i \in 1..Len(cs) : cs[i][1] = k}
                    last == CHOOSE i \in defs : \A j \in defs : j <= i
                IN  env_vars[k] = Final(cs[last][2])

\* two sources define one key with different values
C7_Witness ==
    /\ pc = "finish"
    /\ Len(sources) = 2
    /\ LET c1 == Contribs(<<sources[1]>>)
           c2 == Contribs(<<sources[2]>>)
       IN  \E i \in 1..Len(c1), j \in 1..Len(c2) :
             /\ c1[i][1] = c2[j][1]
             /\ Final(c1[i][2]) # Final(c2[j][2])
             /\ env_vars[c1[i][1]] = Final(c2[j][2])

\* C9: for the source the loop handled last, when its file parses and its
\* path expression is well-formed: no match is an error with a non-zero exit
\* status and neither export nor spawn; a match is no error, an empty object
\* contributing no entry; and the expression `$' is never an error.
C9_NoMatchIsError ==
    run.at # NoSource /\ Files[run.at.file].json.some /\ Selectors(run.at.path).some
    => LET matches == find_slice(<<Files[run.at.file].json.val>>, Selectors(run.at.path).val)
       IN  /\ matches = <<>>
              => run.err = "path" /\ run.exit # 0 /\ ~run.exported /\ run.spawn = "none"
           /\ matches # <<>> => run.err = "none"
           /\ matches = <<DocEmpty>> /\ Len(sources) = 1 => env_vars = EmptyMap
           /\ run.at.path = "$" => run.err = "none"

\* C10: when the executable ran, the exit status is the child's exit code; when
\* it could not be started, or waiting on it failed, the exit status is non-zero.
C10_ExitMirrorsSpawn ==
    pc = "done" /\ run.spawn # "none"
    => /\ run.spawn = "ran" => run.exit = run.child
       /\ run.spawn \in {"spawn_err", "wait_err"} => run.exit # 0

-----------------------------------------------------------------------------
(* Properties of coercion and expansion (SpecPure) *)

\* one pass over the string that replaces each `$name' of a defined variable
RECURSIVE ExpandAll(_, _)
ExpandAll(s, environ) ==
    IF s = <<>> THEN <<>>
    ELSE LET hits == IF Len(s) >= 2 /\ Head(s) = "$"
                     THEN {i \in 1..Len(environ) : environ[i][1] = s[2]}
                     ELSE {}
         IN  IF hits # {}
             THEN environ[CHOOSE i \in hits : TRUE][2] \o ExpandAll(SubSeq(s, 3, Len(s)), environ)
             ELSE <<Head(s)>> \o ExpandAll(Tail(s), environ)

\* C6: the expansion of a string is the string with every `$name' of every
\* defined variable replaced by the variable's value, and it is the same for
\* every order in which the environment is iterated.
C6_AllReferencesExpanded ==
    pin.op = "expand" /\ pout.some
    => /\ pout.val = ExpandAll(pin.val, pin.environ)
       /\ \A e \in Environs :
            {e[i] : i \in 1..Len(e)} = {pin.environ[i] : i \in 1..Len(pin.environ)}
            => expand(pin.val, e) = pout.val

\* C8: coercion yields, for a string, its content without quotes; for null,
\* true and false the texts null, true and false; for a number its decimal
\* digits; for an array and an object the bracketed and braced JSON text. No
\* value of the five other kinds yields the empty placeholder.
C8_CoercionTable ==
    pin.op = "coerce" /\ pout.some
    => LET v == pin.val
           r == pout.val
       IN  /\ v.kind = "string" => r = v.s
           /\ v.kind = "null"   => r = <<"n", "u", "l", "l">>
           /\ v.kind = "bool"   => r = IF v.b THEN <<"t", "r", "u", "e">>
                                              ELSE <<"f", "a", "l", "s", "e">>
           /\ v.kind = "number" => /\ Len(r) >= 1
                                   /\ \A i \in 1..Len(r) : \E d \in 1..10 : r[i] = DigitChars[d]
                                   /\ r = to_string(v)
           /\ v.kind = "array"  => r[1] = "[" /\ r[Len(r)] = "]" /\ r = to_string(v)
           /\ v.kind = "object" => r[1] = "{" /\ r[Len(r)] = "}" /\ r = to_string(v)
           /\ v.kind # "string" => r # <<>>

\* a string with a quote in it is coerced to its content
C8_Witness ==
    /\ pin.op = "coerce"
    /\ pout.some
    /\ pin.val.kind = "string"
    /\ pin.val.s = <<"\"", "a">>
    /\ pout.val = <<"\"", "a">>

-----------------------------------------------------------------------------
(* Properties of a resolution run, continued (SpecRun) *)

\* C11: a run in which a source failed (open, read, parse or extraction), or
\* which failed before the loop, prints no export statement and spawns nothing,
\* whatever earlier sources already put into the map; export and spawn happen
\* only in a run without error, after every config file has been processed.
C11_NoPartialExport ==
    /\ run.err # "none" => ~run.exported /\ run.spawn = "none"
    /\ run.exported \/ run.spawn # "none"
       => /\ run.err = "none"
          /\ args.nfiles >= 1
          /\ Len(sources) = args.nfiles

\* a silent run whose first source filled the map and whose second source failed
C11_Witness ==
    /\ pc = "done"
    /\ args.silent
    /\ run.err \in FatalKinds
    /\ Len(sources) >= 1
    /\ DOMAIN env_vars # {}
    /\ ~run.exported
    /\ run.spawn = "none"

\* C12: a source whose path expression matches only nodes that are no objects
\* fails with a path error; the run does not go on with nothing contributed.
C12_NoObjectIsError ==
    run.at # NoSource /\ Files[run.at.file].json.some /\ Selectors(run.at.path).some
    => LET matches == find_slice(<<Files[run.at.file].json.val>>, Selectors(run.at.path).val)
       IN  /\ matches # <<>>
           /\ \A i \in 1..Len(matches) : ~is_object(matches[i])
           => run.err = "path"

====
